---- MODULE Spec2Model ----
(***************************************************************************)
(* globalManager of gubernator (global.go): the asynchronous hit pipeline  *)
(* (QueueHit, runAsyncHits, sendHits) and the status broadcast pipeline    *)
(* (QueueUpdate, runBroadcasts, updatePeers), their debounce Interval and  *)
(* the ServerStats they update.                                            *)
(*                                                                         *)
(* Time is kept relative: an armed Interval holds the time left until it   *)
(* fires, a pending batch holds the time since its first item was          *)
(* accepted, a broadcast flush the time since it started. Tick advances    *)
(* all of them by one unit.                                                *)
(***************************************************************************)
EXTENDS Integers, Sequences, FiniteSets, TLC

\* ------------------------------------------------------------------ bounds

\* Largest Hits value of a queued request.
MaxHits == 2
\* Largest sum of Hits the producers queue into one pending batch.
MaxBatchHits == 4
\* Largest number of keys the producers have the hit flushes count.
MaxCount == 3
\* Longest broadcast flush, in clock units.
MaxDuration == 1
\* Number of concurrent producers.
NumProducers == 2
\* Largest configured GlobalBatchLimit.
MaxBatchLimit == 2
\* The configured GlobalSyncWait, in clock units.
SyncWait == 2

\* ------------------------------------------------------------------ values

Producers == 1..NumProducers
Keys == {"K1", "K2"}
Hosts == {"P1", "P2"}
ErrNoPeer == "ErrNoPeer"
\* Behavior is a bit mask: 0 is none of its flags, 2 is the GLOBAL flag.
Behaviors == {0, 2}
\* Limit is a field the manager only carries; it tells two requests of a key apart.
Limits == {10 * h : h \in 1..MaxHits}

\* A RateLimitReq. HashKey stands for the value of r.HashKey().
RateLimitReq == [HashKey : Keys, Hits : 1..MaxHits, Behavior : Behaviors, Limit : Limits]

\* The requests the producers pass to QueueHit and to QueueUpdate: requests
\* of global rate limits, one Limit for each Hits.
Requests == {r \in RateLimitReq : r.Behavior # 0 /\ r.Limit = 10 * r.Hits}

\* The requests of one hit.
UnitRequests == {r \in Requests : r.Hits = 1}

\* The peer lists GetPeerList may return: each peer with its isOwner flag.
Peer(h) == [host |-> h, isOwner |-> FALSE]
Self(h) == [host |-> h, isOwner |-> TRUE]
PeerLists ==
    { <<Self("P1")>>,
      <<Peer("P1"), Peer("P2")>>,
      <<Self("P1"), Peer("P2")>>,
      <<Peer("P1"), Self("P2"), Peer("P3")>> }

\* The empty map, make(map[string]*RateLimitReq).
EmptyMap == [k \in {} |-> 0]

\* len(m) of a map.
MapLen(m) == Cardinality(DOMAIN m)

\* All orders in which a range statement may visit the keys S of a map.
RECURSIVE Orders(_)
Orders(S) ==
    IF S = {} THEN {<<>>}
    ELSE UNION {{<<k>> \o o : o \in Orders(S \ {k})} : k \in S}

\* ServerStats{}: both counters zero.
ZeroStats == [AsyncGlobalsCount |-> 0, BroadcastDuration |-> 0]

\* No Stats call in progress.
NoCall == [pc |-> "idle", clear |-> FALSE, result |-> ZeroStats]

\* No request.
NoReq == [HashKey |-> "", Hits |-> 0, Behavior |-> 0, Limit |-> 0]

VARIABLES
    conf,             \* gm.conf
    producers,        \* producer -> "idle", or the Queue call it is blocked in
    done,             \* the WaitGroup's done channel is closed
    stats,            \* gm.stats
    hits,             \* runAsyncHits: the pending batch
    hitsPc,           \* runAsyncHits: where the loop is
    hitsInterval,     \* runAsyncHits: interval
    peerRequests,     \* sendHits: the pairs not yet sent
    updates,          \* runBroadcasts: the pending batch
    updatesPc,        \* runBroadcasts: where the loop is
    updatesInterval,  \* runBroadcasts: interval
    req,              \* updatePeers: req.Globals
    peerList,         \* updatePeers: the peers of GetPeerList not yet visited
    elapsed,          \* updatePeers: time.Now() - start
    \* history, read by the properties only
    hitsAge,          \* time since the first item of hits was accepted
    queuedHits,       \* key -> sum of the Hits handed to the loop since the last flush
    hitPeers,         \* sendHits: what GetPeer returned for each key of the batch
    hitCalls,         \* sendHits: the GetPeerRateLimits calls of this flush
    flushedKeys,      \* sum of the batch sizes of the completed hit flushes
    lastFailed,       \* the last completed hit flush had a failed GetPeer or call
    updatesAge,       \* time since the first item of updates was accepted
    lastUpdate,       \* key -> the latest request handed to the loop since the last flush
    replaced,         \* the keys of updates queued again, with another request
    evals,            \* updatePeers: the getRateLimit calls of this flush
    updatePeerList,   \* updatePeers: what GetPeerList returned
    updateCalls,      \* updatePeers: the UpdatePeerGlobals calls of this flush
    statsCall,        \* Stats: where the caller is, its clear flag, the ServerStats it builds
    \* history of Stats, read by the properties only
    statsBefore,      \* gm.stats when the call in progress began
    statsDisturbed,   \* a flush wrote gm.stats during the call in progress
    prevCall,         \* the calls returned since a flush last wrote gm.stats: "none",
                      \* "read", "clear", or "clear, read" (a read right after a clear)
    returnedCount,    \* sum of the AsyncGlobalsCount the clearing calls returned
    maxSince          \* longest broadcast flush since BroadcastDuration was last cleared

hitsVars == <<hits, hitsPc, hitsInterval, peerRequests,
              hitsAge, queuedHits, hitPeers, hitCalls, flushedKeys, lastFailed>>
updatesVars == <<updates, updatesPc, updatesInterval, req, peerList, elapsed,
                 updatesAge, lastUpdate, replaced, evals, updatePeerList, updateCalls>>
statsVars == <<statsCall, statsBefore, statsDisturbed, prevCall, returnedCount, maxSince>>
vars == <<conf, producers, done, stats, hitsVars, updatesVars, statsVars>>

\* ---------------------------------------------------------------- Interval

\* NewInterval: dormant, nothing to read on C.
NewInterval == [armed |-> FALSE, remaining |-> 0, C |-> FALSE]

\* Interval.Next with wait d: arm the timer unless it is armed already.
IntervalNext(i, d) ==
    IF i.armed THEN i
    ELSE [i EXCEPT !.armed = TRUE, !.remaining = d]

\* The timer fires: C becomes readable and the timer is dormant again.
IntervalFire(i) == [i EXCEPT !.armed = FALSE, !.remaining = 0, !.C = TRUE]

\* One unit of time passes for an interval.
IntervalTick(i) ==
    IF i.armed /\ i.remaining > 0 THEN [i EXCEPT !.remaining = @ - 1] ELSE i

\* -------------------------------------------------------------------- Init

\* newGlobalManager: both loops at their select, nothing pending.
Init ==
    /\ conf \in [GlobalBatchLimit : 1..MaxBatchLimit, GlobalSyncWait : {SyncWait}]
    /\ producers = [p \in Producers |-> "idle"]
    /\ done = FALSE
    /\ stats = ZeroStats
    /\ hits = EmptyMap
    /\ hitsPc = "select"
    /\ hitsInterval = NewInterval
    /\ peerRequests = EmptyMap
    /\ updates = EmptyMap
    /\ updatesPc = "select"
    /\ updatesInterval = NewInterval
    /\ req = <<>>
    /\ peerList = <<>>
    /\ elapsed = 0
    /\ hitsAge = 0
    /\ queuedHits = [k \in Keys |-> 0]
    /\ hitPeers = EmptyMap
    /\ hitCalls = <<>>
    /\ flushedKeys = 0
    /\ lastFailed = FALSE
    /\ updatesAge = 0
    /\ lastUpdate = [k \in Keys |-> NoReq]
    /\ replaced = {}
    /\ evals = <<>>
    /\ updatePeerList = <<>>
    /\ updateCalls = <<>>
    /\ statsCall = NoCall
    /\ statsBefore = ZeroStats
    /\ statsDisturbed = FALSE
    /\ prevCall = "none"
    /\ returnedCount = 0
    /\ maxSince = 0

\* ------------------------------------------------------------- environment

Blocked(call) == Cardinality({p \in Producers : producers[p] = call})

RECURSIVE SumHits(_, _)
SumHits(m, S) ==
    IF S = {} THEN 0
    ELSE LET k == CHOOSE x \in S : TRUE IN m[k].Hits + SumHits(m, S \ {k})

\* A producer calls QueueHit and blocks in the send on the unbuffered
\* asyncQueue. The guards bound what the producers feed in, never what the
\* loop does with it.
QueueHit(p) ==
    /\ producers[p] = "idle"
    /\ SumHits(hits, DOMAIN hits) + (Blocked("QueueHit") + 1) * MaxHits <= MaxBatchHits
    /\ flushedKeys + MapLen(hits) + Blocked("QueueHit") + 1 <= MaxCount
    /\ producers' = [producers EXCEPT ![p] = "QueueHit"]
    /\ UNCHANGED <<conf, done, stats, hitsVars, updatesVars>>
    /\ UNCHANGED statsVars

\* A producer calls QueueUpdate and blocks in the send on broadcastQueue.
QueueUpdate(p) ==
    /\ producers[p] = "idle"
    /\ producers' = [producers EXCEPT ![p] = "QueueUpdate"]
    /\ UNCHANGED <<conf, done, stats, hitsVars, updatesVars>>
    /\ UNCHANGED statsVars

\* holster.WaitGroup.Stop closes the done channel.
Shutdown ==
    /\ ~done
    /\ done' = TRUE
    /\ UNCHANGED <<conf, producers, stats, hitsVars, updatesVars>>
    /\ UNCHANGED statsVars

\* ------------------------------------------------------------ runAsyncHits

\* A plausible slip: the queue is buffered, a send completes wherever the
\* loop is.
AtReceiveBuffered(pc) == TRUE

\* The channels are unbuffered (lines 26-27): a send completes when the loop
\* is at the receive of its select (lines 65, 150).
AtReceive(pc) == pc = "select"

\* A plausible slip: the stored request is replaced, as runBroadcasts does.
MergeHitReplace(h, r) ==
    [k \in DOMAIN h \cup {r.HashKey} |-> IF k = r.HashKey THEN r ELSE h[k]]

\* Aggregate the hits into a single request (lines 67-73).
MergeHit(h, r) ==
    IF r.HashKey \in DOMAIN h
    THEN [h EXCEPT ![r.HashKey].Hits = @ + r.Hits]
    ELSE [k \in DOMAIN h \cup {r.HashKey} |-> IF k = r.HashKey THEN r ELSE h[k]]

\* A plausible slip: > for ==.
BatchLimitExceeded(m, limit) == MapLen(m) > limit

\* len(batch) == gm.conf.GlobalBatchLimit (lines 76, 154).
BatchLimitReached(m, limit) == MapLen(m) = limit

\* A plausible slip: the interval is queued by the second key.
FirstQueuedSecond(m) == MapLen(m) = 2

\* A plausible slip: the interval is queued for an empty batch only.
FirstQueuedNever(m) == MapLen(m) = 0

\* len(batch) == 1 (lines 84, 162).
FirstQueued(m) == MapLen(m) = 1

\* A plausible slip: return false, which ends the loop of wg.Until.
ReturnFalse == "stopped"

\* return true (lines 79, 96, 157, 174): wg.Until calls the function again,
\* the loop is at its select.
ReturnTrue == "select"

\* A plausible slip: the fire of the interval flushes whatever the batch holds.
BatchPendingAlways(m) == TRUE

\* len(batch) != 0 (lines 89, 167).
BatchPending(m) == MapLen(m) # 0

\* The batch the loop goes on with after a flush (lines 78, 91, 156, 169).
ResetBatch(m) == EmptyMap

\* case r := <-gm.asyncQueue (lines 65-86): the loop takes the request r of a
\* blocked producer, whose QueueHit returns.
AsyncQueueCase(p, r) ==
    /\ AtReceive(hitsPc)
    /\ producers[p] = "QueueHit"
    /\ producers' = [producers EXCEPT ![p] = "idle"]
    /\ LET merged == MergeHit(hits, r) IN
        /\ hits' = merged
        /\ IF BatchLimitReached(merged, conf.GlobalBatchLimit)
           THEN /\ hitsPc' = "sendHits"
                /\ hitsAge' = 0
                /\ UNCHANGED hitsInterval
           ELSE /\ hitsPc' = "select"
                /\ hitsAge' = IF MapLen(hits) = 0 THEN 0 ELSE hitsAge
                /\ hitsInterval' = IF FirstQueued(merged)
                                   THEN IntervalNext(hitsInterval, conf.GlobalSyncWait)
                                   ELSE hitsInterval
    /\ queuedHits' = [queuedHits EXCEPT ![r.HashKey] = @ + r.Hits]
    /\ UNCHANGED <<conf, done, stats, peerRequests, hitPeers, hitCalls, flushedKeys, lastFailed, updatesVars>>
    /\ UNCHANGED statsVars

\* case <-interval.C (lines 88-92).
HitsIntervalCase ==
    /\ hitsPc = "select"
    /\ hitsInterval.C
    /\ hitsInterval' = [hitsInterval EXCEPT !.C = FALSE]
    /\ hitsPc' = IF BatchPending(hits) THEN "sendHits" ELSE "select"
    /\ hitsAge' = 0
    /\ UNCHANGED <<conf, producers, done, stats, hits, peerRequests,
                   queuedHits, hitPeers, hitCalls, flushedKeys, lastFailed, updatesVars>>
    /\ UNCHANGED statsVars

\* A plausible slip: a pending batch is flushed before the loop ends.
OnDoneFlush(m, flush) == IF MapLen(m) # 0 THEN flush ELSE "stopped"

\* return false (lines 94, 172): where the loop with the pending batch m is
\* after it read done; flush is where a flush of the batch would start.
OnDone(m, flush) == "stopped"

\* case <-done (lines 93-94).
HitsDoneCase ==
    /\ hitsPc = "select"
    /\ done
    /\ hitsPc' = OnDone(hits, "sendHits")
    /\ UNCHANGED <<conf, producers, done, stats, hits, hitsInterval, peerRequests,
                   hitsAge, queuedHits, hitPeers, hitCalls, flushedKeys, lastFailed, updatesVars>>
    /\ UNCHANGED statsVars

\* ---------------------------------------------------------------- sendHits

\* A plausible slip: a pair is made for every request, the one its peer had
\* is replaced.
RECURSIVE AssignPeersOverwrite(_, _, _, _)
AssignPeersOverwrite(ord, h, res, pr) ==
    IF ord = <<>> THEN pr
    ELSE LET r == h[Head(ord)]
             peer == res[r.HashKey]
         IN  IF peer = ErrNoPeer
             THEN AssignPeersOverwrite(Tail(ord), h, res, pr)
             ELSE AssignPeersOverwrite(Tail(ord), h, res,
                                       [x \in DOMAIN pr \cup {peer} |->
                                           IF x = peer THEN <<r>> ELSE pr[x]])

\* A plausible slip: break for continue, the first failed GetPeer ends the loop.
RECURSIVE AssignPeersBreak(_, _, _, _)
AssignPeersBreak(ord, h, res, pr) ==
    IF ord = <<>> THEN pr
    ELSE LET r == h[Head(ord)]
             peer == res[r.HashKey]
         IN  IF peer = ErrNoPeer
             THEN pr
             ELSE IF peer \in DOMAIN pr
             THEN AssignPeersBreak(Tail(ord), h, res,
                                   [pr EXCEPT ![peer] = Append(@, r)])
             ELSE AssignPeersBreak(Tail(ord), h, res,
                                   [x \in DOMAIN pr \cup {peer} |->
                                       IF x = peer THEN <<r>> ELSE pr[x]])

\* Assign each request to a peer (lines 107-126): the requests are visited in
\* the order ord, res is what GetPeer returns for each key.
RECURSIVE AssignPeers(_, _, _, _)
AssignPeers(ord, h, res, pr) ==
    IF ord = <<>> THEN pr
    ELSE LET r == h[Head(ord)]
             peer == res[r.HashKey]
         IN  IF peer = ErrNoPeer
             THEN AssignPeers(Tail(ord), h, res, pr)
             ELSE IF peer \in DOMAIN pr
             THEN AssignPeers(Tail(ord), h, res,
                              [pr EXCEPT ![peer] = Append(@, r)])
             ELSE AssignPeers(Tail(ord), h, res,
                              [x \in DOMAIN pr \cup {peer} |->
                                  IF x = peer THEN <<r>> ELSE pr[x]])

SendHitsAssign ==
    /\ hitsPc = "sendHits"
    /\ \E ord \in Orders(DOMAIN hits) :
       \E res \in [DOMAIN hits -> Hosts \cup {ErrNoPeer}] :
        /\ peerRequests' = AssignPeers(ord, hits, res, EmptyMap)
        /\ hitPeers' = res
    /\ hitsPc' = "send"
    /\ UNCHANGED <<conf, producers, done, stats, hits, hitsInterval,
                   hitsAge, queuedHits, hitCalls, flushedKeys, lastFailed, updatesVars>>
    /\ UNCHANGED statsVars

\* A plausible slip: a failed call is made again.
AfterPeerCallRetry(pr, host, err) ==
    IF err THEN pr ELSE [x \in DOMAIN pr \ {host} |-> pr[x]]

\* The pairs left to send after the call to host returned err (lines 129-139):
\* the loop moves on to the next pair whatever the call returned.
AfterPeerCall(pr, host, err) == [x \in DOMAIN pr \ {host} |-> pr[x]]

\* One iteration of the send loop: GetPeerRateLimits on one pair.
SendHitsCall ==
    /\ hitsPc = "send"
    /\ \E host \in DOMAIN peerRequests : \E err \in BOOLEAN :
        /\ hitCalls' = Append(hitCalls,
               [host |-> host, Requests |-> peerRequests[host], err |-> err])
        /\ peerRequests' = AfterPeerCall(peerRequests, host, err)
    /\ UNCHANGED <<conf, producers, done, stats, hits, hitsPc, hitsInterval,
                   hitsAge, queuedHits, hitPeers, flushedKeys, lastFailed, updatesVars>>
    /\ UNCHANGED statsVars

\* A plausible slip: only the requests of the calls that succeeded are counted.
RECURSIVE CountedDelivered(_, _)
CountedDelivered(h, calls) ==
    IF calls = <<>> THEN 0
    ELSE (IF Head(calls).err THEN 0 ELSE Len(Head(calls).Requests))
         + CountedDelivered(h, Tail(calls))

\* int64(len(hits)) (line 140); calls are the calls the flush made.
CountedHits(h, calls) == MapLen(h)

\* atomic.AddInt64 (line 140), then sendHits returns and the loop resets its
\* batch (lines 78, 91).
SendHitsCount ==
    /\ hitsPc = "send"
    /\ DOMAIN peerRequests = {}
    /\ stats' = [stats EXCEPT !.AsyncGlobalsCount = @ + CountedHits(hits, hitCalls)]
    /\ hits' = ResetBatch(hits)
    /\ hitsPc' = ReturnTrue
    /\ queuedHits' = [k \in Keys |-> 0]
    /\ hitPeers' = EmptyMap
    /\ hitCalls' = <<>>
    /\ flushedKeys' = flushedKeys + MapLen(hits)
    /\ lastFailed' = \/ \E k \in DOMAIN hitPeers : hitPeers[k] = ErrNoPeer
                      \/ \E i \in 1..Len(hitCalls) : hitCalls[i].err
    /\ statsDisturbed' = (statsCall.pc # "idle")
    /\ prevCall' = "none"
    /\ UNCHANGED <<conf, producers, done, hitsInterval, peerRequests, hitsAge,
                   updatesVars, statsCall, statsBefore, returnedCount, maxSince>>

\* The hit pipeline's interval fires.
HitsIntervalFire ==
    /\ hitsInterval.armed
    /\ hitsInterval.remaining = 0
    /\ hitsInterval' = IntervalFire(hitsInterval)
    /\ UNCHANGED <<conf, producers, done, stats, hits, hitsPc, peerRequests,
                   hitsAge, queuedHits, hitPeers, hitCalls, flushedKeys, lastFailed, updatesVars>>
    /\ UNCHANGED statsVars

\* ----------------------------------------------------------- runBroadcasts

\* A plausible slip: a key already in the batch keeps its first request.
PutUpdateKeepFirst(u, r) ==
    [k \in DOMAIN u \cup {r.HashKey} |-> IF k \in DOMAIN u THEN u[k] ELSE r]

\* updates[r.HashKey()] = r (line 151).
PutUpdate(u, r) ==
    [k \in DOMAIN u \cup {r.HashKey} |-> IF k = r.HashKey THEN r ELSE u[k]]

\* case r := <-gm.broadcastQueue (lines 150-164): the loop takes the request r
\* of a blocked producer, whose QueueUpdate returns.
BroadcastQueueCase(p, r) ==
    /\ AtReceive(updatesPc)
    /\ producers[p] = "QueueUpdate"
    /\ producers' = [producers EXCEPT ![p] = "idle"]
    /\ LET put == PutUpdate(updates, r) IN
        /\ updates' = put
        /\ IF BatchLimitReached(put, conf.GlobalBatchLimit)
           THEN /\ updatesPc' = "updatePeers"
                /\ updatesAge' = 0
                /\ UNCHANGED updatesInterval
           ELSE /\ updatesPc' = "select"
                /\ updatesAge' = IF MapLen(updates) = 0 THEN 0 ELSE updatesAge
                /\ updatesInterval' = IF FirstQueued(put)
                                      THEN IntervalNext(updatesInterval, conf.GlobalSyncWait)
                                      ELSE updatesInterval
    /\ lastUpdate' = [lastUpdate EXCEPT ![r.HashKey] = r]
    /\ replaced' = IF lastUpdate[r.HashKey] \notin {NoReq, r}
                   THEN replaced \cup {r.HashKey} ELSE replaced
    /\ elapsed' = 0
    /\ UNCHANGED <<conf, done, stats, req, peerList, evals, updatePeerList,
                   updateCalls, hitsVars>>
    /\ UNCHANGED statsVars

\* case <-interval.C (lines 166-170).
UpdatesIntervalCase ==
    /\ updatesPc = "select"
    /\ updatesInterval.C
    /\ updatesInterval' = [updatesInterval EXCEPT !.C = FALSE]
    /\ updatesPc' = IF BatchPending(updates) THEN "updatePeers" ELSE "select"
    /\ updatesAge' = 0
    /\ elapsed' = 0
    /\ UNCHANGED <<conf, producers, done, stats, updates, req, peerList,
                   lastUpdate, replaced, evals, updatePeerList, updateCalls, hitsVars>>
    /\ UNCHANGED statsVars

\* case <-done (lines 171-172).
UpdatesDoneCase ==
    /\ updatesPc = "select"
    /\ done
    /\ updatesPc' = OnDone(updates, "updatePeers")
    /\ UNCHANGED <<conf, producers, done, stats, updates, updatesInterval, req, peerList,
                   elapsed, updatesAge, lastUpdate, replaced, evals, updatePeerList,
                   updateCalls, hitsVars>>
    /\ UNCHANGED statsVars

\* ------------------------------------------------------------- updatePeers

\* A plausible slip: the behavior is cleared, the hits are left.
ClearBehaviorOnly(rl) == [rl EXCEPT !.Behavior = 0]

\* rl.Behavior = 0; rl.Hits = 0 (lines 186-187).
ClearFlags(rl) == [rl EXCEPT !.Behavior = 0, !.Hits = 0]

\* The status instance.getRateLimit returns for rl when it succeeds.
getRateLimit(rl) == [Limit |-> rl.Limit, Remaining |-> rl.Limit - rl.Hits]

\* A plausible slip: return for continue, the first failed evaluation ends
\* the loop.
RECURSIVE EvalUpdatesAbort(_, _, _, _)
EvalUpdatesAbort(ord, u, ok, out) ==
    IF ord = <<>> THEN out
    ELSE LET rl == ClearFlags(u[Head(ord)])
             call == [rl |-> rl, err |-> ~ok[Head(ord)]]
         IN  IF ok[Head(ord)]
             THEN EvalUpdatesAbort(Tail(ord), u, ok,
                      [Globals |-> Append(out.Globals,
                                          [Key |-> rl.HashKey, Status |-> getRateLimit(rl)]),
                       evals   |-> Append(out.evals, call)])
             ELSE [Globals |-> out.Globals, evals |-> Append(out.evals, call)]

\* The loop over updates (lines 183-199): the requests are visited in the
\* order ord, ok tells for each key whether getRateLimit succeeds. out holds
\* req.Globals and the getRateLimit calls made.
RECURSIVE EvalUpdates(_, _, _, _)
EvalUpdates(ord, u, ok, out) ==
    IF ord = <<>> THEN out
    ELSE LET rl == ClearFlags(u[Head(ord)])
             call == [rl |-> rl, err |-> ~ok[Head(ord)]]
         IN  EvalUpdates(Tail(ord), u, ok,
                 [Globals |-> IF ok[Head(ord)]
                              THEN Append(out.Globals,
                                          [Key |-> rl.HashKey, Status |-> getRateLimit(rl)])
                              ELSE out.Globals,
                  evals   |-> Append(out.evals, call)])

\* Lines 180-201: evaluate every queued request, then read the peer list.
UpdatePeersEval ==
    /\ updatesPc = "updatePeers"
    /\ \E ord \in Orders(DOMAIN updates) :
       \E ok \in [DOMAIN updates -> BOOLEAN] :
        LET out == EvalUpdates(ord, updates, ok, [Globals |-> <<>>, evals |-> <<>>]) IN
        /\ req' = out.Globals
        /\ evals' = out.evals
    /\ updates' = [k \in DOMAIN updates |-> ClearFlags(updates[k])]
    /\ \E pl \in PeerLists :
        /\ peerList' = pl
        /\ updatePeerList' = pl
    /\ updatesPc' = "broadcast"
    /\ UNCHANGED <<conf, producers, done, stats, updatesInterval, elapsed,
                   updatesAge, lastUpdate, replaced, updateCalls, hitsVars>>
    /\ UNCHANGED statsVars

\* A plausible slip: nobody is excluded.
ExcludeNobody(peer) == FALSE

\* Exclude ourselves from the update (lines 203-205).
ExcludePeer(peer) == peer.isOwner

\* The peers left to visit after the call to the first of pl returned err
\* (lines 201-215): the loop moves on whatever the call returned.
AfterUpdateCall(pl, err) == Tail(pl)

\* One iteration of the loop over the peer list: skip an owner, call
\* UpdatePeerGlobals on any other peer.
UpdatePeersCall ==
    /\ updatesPc = "broadcast"
    /\ peerList # <<>>
    /\ LET peer == Head(peerList) IN
        IF ExcludePeer(peer)
        THEN /\ peerList' = Tail(peerList)
             /\ UNCHANGED updateCalls
        ELSE \E err \in BOOLEAN :
             /\ updateCalls' = Append(updateCalls,
                    [host |-> peer.host, Globals |-> req, err |-> err])
             /\ peerList' = AfterUpdateCall(peerList, err)
    /\ UNCHANGED <<conf, producers, done, stats, updates, updatesPc, updatesInterval,
                   req, elapsed, updatesAge, lastUpdate, replaced, evals,
                   updatePeerList, hitsVars>>
    /\ UNCHANGED statsVars

\* A plausible slip: the duration is stored whatever was recorded.
DurationAlways(old, duration) == TRUE

\* atomic.LoadInt64(&gm.stats.BroadcastDuration) < duration (line 218).
DurationExceeds(old, duration) == old < duration

Max(a, b) == IF a < b THEN b ELSE a

\* Lines 217-218: the duration of the flush is taken and compared with the
\* BroadcastDuration loaded. If it is not longer, updatePeers returns and the
\* loop resets its batch (lines 156, 169).
UpdatePeersDuration ==
    /\ updatesPc = "broadcast"
    /\ peerList = <<>>
    /\ IF DurationExceeds(stats.BroadcastDuration, elapsed)
       THEN /\ updatesPc' = "store"
            /\ UNCHANGED <<updates, req, elapsed, lastUpdate, replaced, evals,
                           updatePeerList, updateCalls, maxSince>>
       ELSE /\ updatesPc' = ReturnTrue
            /\ updates' = ResetBatch(updates)
            /\ req' = <<>>
            /\ elapsed' = 0
            /\ lastUpdate' = [k \in Keys |-> NoReq]
            /\ replaced' = {}
            /\ evals' = <<>>
            /\ updatePeerList' = <<>>
            /\ updateCalls' = <<>>
            /\ maxSince' = Max(maxSince, elapsed)
    /\ UNCHANGED <<conf, producers, done, stats, updatesInterval, peerList, updatesAge,
                   hitsVars, statsCall, statsBefore, statsDisturbed, prevCall,
                   returnedCount>>

\* atomic.StoreInt64(&gm.stats.BroadcastDuration, duration) (line 219), then
\* updatePeers returns and the loop resets its batch (lines 156, 169).
UpdatePeersStore ==
    /\ updatesPc = "store"
    /\ stats' = [stats EXCEPT !.BroadcastDuration = elapsed]
    /\ updatesPc' = ReturnTrue
    /\ updates' = ResetBatch(updates)
    /\ req' = <<>>
    /\ elapsed' = 0
    /\ lastUpdate' = [k \in Keys |-> NoReq]
    /\ replaced' = {}
    /\ evals' = <<>>
    /\ updatePeerList' = <<>>
    /\ updateCalls' = <<>>
    /\ maxSince' = Max(maxSince, elapsed)
    /\ statsDisturbed' = (statsCall.pc # "idle")
    /\ prevCall' = "none"
    /\ UNCHANGED <<conf, producers, done, updatesInterval, peerList, updatesAge,
                   hitsVars, statsCall, statsBefore, returnedCount>>

\* The broadcast pipeline's interval fires.
UpdatesIntervalFire ==
    /\ updatesInterval.armed
    /\ updatesInterval.remaining = 0
    /\ updatesInterval' = IntervalFire(updatesInterval)
    /\ UNCHANGED <<conf, producers, done, stats, updates, updatesPc, req, peerList,
                   elapsed, updatesAge, lastUpdate, replaced, evals, updatePeerList,
                   updateCalls, hitsVars>>
    /\ UNCHANGED statsVars

\* ------------------------------------------------------------------- Stats

\* Stats(clear) is called and evaluates the first field of the ServerStats it
\* returns: atomic.LoadInt64(&gm.stats.AsyncGlobalsCount) (line 52).
StatsLoadAsync(clear) ==
    /\ statsCall.pc = "idle"
    /\ statsCall' = [pc |-> "loadBD", clear |-> clear,
                     result |-> [ZeroStats EXCEPT
                                   !.AsyncGlobalsCount = stats.AsyncGlobalsCount]]
    /\ statsBefore' = stats
    /\ statsDisturbed' = FALSE
    /\ UNCHANGED <<conf, producers, done, stats, hitsVars, updatesVars,
                   prevCall, returnedCount, maxSince>>

\* A plausible slip: the deferred function is never registered.
AfterLoadsNoClear(clear) == "idle"

\* What Stats does once the ServerStats is built: the deferred function runs
\* if clear was set (lines 45-50), else Stats returns.
AfterLoads(clear) == IF clear THEN "storeAsync" ELSE "idle"

\* atomic.LoadInt64(&gm.stats.BroadcastDuration) (line 53).
StatsLoadBD ==
    /\ statsCall.pc = "loadBD"
    /\ statsCall' = [statsCall EXCEPT
                        !.pc = AfterLoads(statsCall.clear),
                        !.result.BroadcastDuration = stats.BroadcastDuration]
    /\ IF statsCall.clear
       THEN UNCHANGED <<statsBefore, statsDisturbed, prevCall>>
       ELSE /\ statsBefore' = ZeroStats
            /\ statsDisturbed' = FALSE
            /\ prevCall' = IF statsDisturbed THEN "none"
                           ELSE IF prevCall = "clear" THEN "clear, read" ELSE "read"
    /\ UNCHANGED <<conf, producers, done, stats, hitsVars, updatesVars,
                   returnedCount, maxSince>>

\* The deferred atomic.StoreInt64(&gm.stats.AsyncGlobalsCount, 0) (line 47).
StatsStoreAsync ==
    /\ statsCall.pc = "storeAsync"
    /\ stats' = [stats EXCEPT !.AsyncGlobalsCount = 0]
    /\ statsCall' = [statsCall EXCEPT !.pc = "storeBD"]
    /\ returnedCount' = returnedCount + statsCall.result.AsyncGlobalsCount
    /\ UNCHANGED <<conf, producers, done, hitsVars, updatesVars,
                   statsBefore, statsDisturbed, prevCall, maxSince>>

\* The deferred atomic.StoreInt64(&gm.stats.BroadcastDuration, 0) (line 48),
\* then Stats returns.
StatsStoreBD ==
    /\ statsCall.pc = "storeBD"
    /\ stats' = [stats EXCEPT !.BroadcastDuration = 0]
    /\ statsCall' = [statsCall EXCEPT !.pc = "idle"]
    /\ maxSince' = 0
    /\ statsBefore' = ZeroStats
    /\ statsDisturbed' = FALSE
    /\ prevCall' = IF statsDisturbed THEN "none" ELSE "clear"
    /\ UNCHANGED <<conf, producers, done, hitsVars, updatesVars, returnedCount>>

\* ------------------------------------------------------------------- clock

\* The age of a pending batch one unit later (it is compared with
\* GlobalSyncWait only, and stops there).
AgeTick(m, pc, age) ==
    IF pc = "select" /\ MapLen(m) # 0 /\ age < conf.GlobalSyncWait THEN age + 1 ELSE age

InUpdatePeers == updatesPc \in {"updatePeers", "broadcast"}

\* One unit of time passes. A broadcast flush takes MaxDuration at most.
Tick ==
    /\ InUpdatePeers => elapsed < MaxDuration
    /\ hitsInterval' = IntervalTick(hitsInterval)
    /\ hitsAge' = AgeTick(hits, hitsPc, hitsAge)
    /\ updatesInterval' = IntervalTick(updatesInterval)
    /\ updatesAge' = AgeTick(updates, updatesPc, updatesAge)
    /\ elapsed' = IF InUpdatePeers THEN elapsed + 1 ELSE elapsed
    /\ <<hitsInterval', hitsAge', updatesInterval', updatesAge', elapsed'>>
         # <<hitsInterval, hitsAge, updatesInterval, updatesAge, elapsed>>
    /\ UNCHANGED <<conf, producers, done, stats, hits, hitsPc, peerRequests,
                   queuedHits, hitPeers, hitCalls, flushedKeys, lastFailed,
                   updates, updatesPc, req, peerList,
                   lastUpdate, replaced, evals, updatePeerList, updateCalls>>
    /\ UNCHANGED statsVars

\* ---------------------------------------------------------- specifications

\* The two loops, their producers, the clock and the shutdown, in any
\* interleaving.
Next ==
    \/ \E p \in Producers : QueueHit(p)
    \/ \E p \in Producers : \E r \in Requests : AsyncQueueCase(p, r)
    \/ HitsIntervalCase
    \/ HitsDoneCase
    \/ SendHitsAssign
    \/ SendHitsCall
    \/ SendHitsCount
    \/ HitsIntervalFire
    \/ \E p \in Producers : QueueUpdate(p)
    \/ \E p \in Producers : \E r \in Requests : BroadcastQueueCase(p, r)
    \/ UpdatesIntervalCase
    \/ UpdatesDoneCase
    \/ UpdatePeersEval
    \/ UpdatePeersCall
    \/ UpdatePeersDuration
    \/ UpdatePeersStore
    \/ UpdatesIntervalFire
    \/ \E clear \in BOOLEAN : StatsLoadAsync(clear)
    \/ StatsLoadBD
    \/ StatsStoreAsync
    \/ StatsStoreBD
    \/ Tick
    \/ Shutdown

Spec == Init /\ [][Next]_vars

\* A pipeline nothing was queued to: no producer blocked on its queue, its
\* interval dormant, its loop at its select with an empty batch and nothing to
\* read on C, no flush of it recorded in stats.
HitsUnused ==
    /\ Blocked("QueueHit") = 0
    /\ hitsInterval = NewInterval
    /\ hitsPc = "select"
    /\ MapLen(hits) = 0
    /\ flushedKeys = 0

UpdatesUnused ==
    /\ Blocked("QueueUpdate") = 0
    /\ updatesInterval = NewInterval
    /\ updatesPc = "select"
    /\ MapLen(updates) = 0
    /\ stats.BroadcastDuration = 0

\* The runs without shutdown in which the producers work one pipeline: they
\* call QueueHit only while nothing was queued to the broadcast pipeline, and
\* QueueUpdate only while nothing was queued to the hit pipeline. The two
\* loops share no variable (each owns its batch, its interval and one field
\* of stats), so what one pipeline does never depends on where the other is.
SoloNext ==
    \/ \E p \in Producers : UpdatesUnused /\ QueueHit(p)
    \/ \E p \in Producers : \E r \in Requests : AsyncQueueCase(p, r)
    \/ HitsIntervalCase
    \/ SendHitsAssign
    \/ SendHitsCall
    \/ SendHitsCount
    \/ HitsIntervalFire
    \/ \E p \in Producers : HitsUnused /\ QueueUpdate(p)
    \/ \E p \in Producers : \E r \in Requests : BroadcastQueueCase(p, r)
    \/ UpdatesIntervalCase
    \/ UpdatePeersEval
    \/ UpdatePeersCall
    \/ UpdatePeersDuration
    \/ UpdatePeersStore
    \/ UpdatesIntervalFire
    \/ Tick

SpecSolo == Init /\ [][SoloNext]_vars

\* The runs of SoloNext in which the WaitGroup may be stopped at any moment.
ShutdownNext ==
    \/ SoloNext
    \/ Shutdown
    \/ HitsDoneCase
    \/ UpdatesDoneCase

SpecShutdown == Init /\ [][ShutdownNext]_vars

\* Runs in which both pipelines work at once: producer 1 calls QueueHit and
\* producer 2 QueueUpdate, each with requests of one hit for the key K1, and
\* the peer list is the node and one other peer.
PairRequests == {r \in UnitRequests : r.HashKey = "K1"}

PairNext ==
    \/ QueueHit(1)
    \/ \E p \in Producers : \E r \in PairRequests : AsyncQueueCase(p, r)
    \/ HitsIntervalCase
    \/ SendHitsAssign
    \/ SendHitsCall
    \/ SendHitsCount
    \/ HitsIntervalFire
    \/ QueueUpdate(2)
    \/ \E p \in Producers : \E r \in PairRequests : BroadcastQueueCase(p, r)
    \/ UpdatesIntervalCase
    \/ UpdatePeersEval /\ updatePeerList' = <<Self("P1"), Peer("P2")>>
    \/ UpdatePeersCall
    \/ UpdatePeersDuration
    \/ UpdatePeersStore
    \/ UpdatesIntervalFire
    \/ Tick

SpecPair == Init /\ [][PairNext]_vars

\* Runs with a caller of Stats: one call at a time, each with clear set or
\* not, its loads and stores interleaved with the steps of the loops. One
\* producer works one pipeline, and the node is alone in its peer list; what
\* the loops write to gm.stats depends on neither.
StatsNext ==
    \/ UpdatesUnused /\ QueueHit(1)
    \/ \E p \in Producers : \E r \in Requests : AsyncQueueCase(p, r)
    \/ HitsIntervalCase
    \/ SendHitsAssign
    \/ SendHitsCall
    \/ SendHitsCount
    \/ HitsIntervalFire
    \/ HitsUnused /\ QueueUpdate(1)
    \/ \E p \in Producers : \E r \in Requests : BroadcastQueueCase(p, r)
    \/ UpdatesIntervalCase
    \/ UpdatePeersEval /\ updatePeerList' = <<Self("P1")>>
    \/ UpdatePeersCall
    \/ UpdatePeersDuration
    \/ UpdatePeersStore
    \/ UpdatesIntervalFire
    \/ Tick
    \/ \E clear \in BOOLEAN : StatsLoadAsync(clear)
    \/ StatsLoadBD
    \/ StatsStoreAsync
    \/ StatsStoreBD

SpecStats == Init /\ [][StatsNext]_vars

\* What the scheduling of the loops and of the intervals guarantees: time
\* passes, an interval whose wait is over fires, a loop whose select has
\* interval.C to read reads it in the end (select picks among its ready cases
\* at random), and every call a flush makes returns, so the flush goes on.
Fairness ==
    /\ WF_vars(Tick)
    /\ WF_vars(HitsIntervalFire)
    /\ WF_vars(HitsIntervalCase)
    /\ WF_vars(SendHitsAssign)
    /\ WF_vars(SendHitsCall)
    /\ WF_vars(SendHitsCount)
    /\ WF_vars(UpdatesIntervalFire)
    /\ WF_vars(UpdatesIntervalCase)
    /\ WF_vars(UpdatePeersEval)
    /\ WF_vars(UpdatePeersCall)
    /\ WF_vars(UpdatePeersDuration)
    /\ WF_vars(UpdatePeersStore)

SpecSoloFair == SpecSolo /\ Fairness

\* What the channels guarantee to a blocked producer: the senders blocked on
\* a channel are served first come first served and select picks among its
\* ready cases at random, so a loop that is at its select again and again
\* takes the request of every blocked producer in the end.
QueueFairness ==
    \A p \in Producers :
        /\ SF_vars(\E r \in UnitRequests : AsyncQueueCase(p, r))
        /\ SF_vars(\E r \in UnitRequests : BroadcastQueueCase(p, r))

\* The runs of SoloNext in which every request is a request of one hit and
\* the peer list is the node and one other peer: when a call to QueueHit or
\* QueueUpdate returns depends on neither.
LiveNext ==
    \/ \E p \in Producers : UpdatesUnused /\ QueueHit(p)
    \/ \E p \in Producers : \E r \in UnitRequests : AsyncQueueCase(p, r)
    \/ HitsIntervalCase
    \/ SendHitsAssign
    \/ SendHitsCall
    \/ SendHitsCount
    \/ HitsIntervalFire
    \/ \E p \in Producers : HitsUnused /\ QueueUpdate(p)
    \/ \E p \in Producers : \E r \in UnitRequests : BroadcastQueueCase(p, r)
    \/ UpdatesIntervalCase
    \/ UpdatePeersEval /\ updatePeerList' = <<Self("P1"), Peer("P2")>>
    \/ UpdatePeersCall
    \/ UpdatePeersDuration
    \/ UpdatePeersStore
    \/ UpdatesIntervalFire
    \/ Tick

SpecLive == Init /\ [][LiveNext]_vars /\ Fairness /\ QueueFairness

\* ------------------------------------------------------------------ claims

\* The requests of the calls a hit flush has made so far.
DispatchedHits ==
    {hitCalls[i].Requests[j] : <<i, j>> \in
        {x \in (1..Len(hitCalls)) \X (1..MaxBatchLimit + 1) :
            x[2] <= Len(hitCalls[x[1]].Requests)}}

\* C1: every request a hit flush dispatches carries, as its Hits, the sum of
\* the Hits of all requests of its key that the loop received since the
\* previous flush.
C1_HitAggregation ==
    \A r \in DispatchedHits : r.Hits = queuedHits[r.HashKey]

\* A dispatched request that carries more hits than any single queued request.
C1_Witness ==
    \E r \in DispatchedHits : r.Hits > MaxHits /\ r.Hits = queuedHits[r.HashKey]

\* A step in which the loop of the hit pipeline, of the broadcast pipeline,
\* receives a request.
HitAccepted == \E p \in Producers : producers[p] = "QueueHit" /\ producers'[p] = "idle"
UpdateAccepted == \E p \in Producers : producers[p] = "QueueUpdate" /\ producers'[p] = "idle"

C2_AtSelect ==
    /\ hitsPc = "select" =>
        /\ MapLen(hits) < conf.GlobalBatchLimit
        /\ \A k \in DOMAIN hits : hits[k].HashKey = k
    /\ updatesPc = "select" =>
        /\ MapLen(updates) < conf.GlobalBatchLimit
        /\ \A k \in DOMAIN updates : updates[k].HashKey = k

\* A flush works on the whole batch: sendHits looks up the peer of every key,
\* updatePeers evaluates every key.
C2_WholeBatch ==
    /\ hitsPc = "send" => DOMAIN hitPeers = DOMAIN hits
    /\ updatesPc = "broadcast" =>
          {evals[i].rl.HashKey : i \in 1..Len(evals)} = DOMAIN updates

C2_Step ==
    /\ HitAccepted =>
        /\ hitsPc = "select"
        /\ (hitsPc' = "sendHits") <=> (MapLen(hits') = conf.GlobalBatchLimit)
        /\ (hitsPc' # "sendHits") => hitsPc' = "select"
        /\ DOMAIN hits' = DOMAIN hits => hitsPc' = "select"
    /\ (hitsPc # "select" /\ hitsPc' = "select") => MapLen(hits') = 0
    /\ UpdateAccepted =>
        /\ updatesPc = "select"
        /\ (updatesPc' = "updatePeers") <=> (MapLen(updates') = conf.GlobalBatchLimit)
        /\ (updatesPc' # "updatePeers") => updatesPc' = "select"
        /\ DOMAIN updates' = DOMAIN updates => updatesPc' = "select"
    /\ (updatesPc # "select" /\ updatesPc' = "select") => MapLen(updates') = 0

\* C2: in both pipelines a request is accepted at the select only; accepting
\* it starts a flush exactly when it brings the batch to GlobalBatchLimit
\* distinct keys, whatever the interval does, and never when it merges into a
\* key of the batch; the flush works on every key of the batch, and the loop
\* is back at its select with an empty batch only;
\* so a loop at its select holds fewer than GlobalBatchLimit keys, each entry
\* under its own HashKey.
C2_BatchLimitFlush == []C2_AtSelect /\ []C2_WholeBatch /\ [][C2_Step]_vars

\* A flush started by the batch limit while the interval armed by the batch's
\* first item has not fired.
C2_Witness ==
    /\ hitsPc = "sendHits"
    /\ MapLen(hits) = conf.GlobalBatchLimit
    /\ hitsInterval.armed /\ hitsInterval.remaining > 0 /\ ~hitsInterval.C

\* A step in which the loop reads interval.C and starts a flush.
HitsTimerFlush ==
    /\ hitsPc = "select" /\ hitsPc' = "sendHits"
    /\ hitsInterval.C /\ ~hitsInterval'.C
UpdatesTimerFlush ==
    /\ updatesPc = "select" /\ updatesPc' = "updatePeers"
    /\ updatesInterval.C /\ ~updatesInterval'.C

\* C3: in both pipelines a flush started by the interval starts no earlier
\* than GlobalSyncWait after the first item of the flushed batch was accepted.
C3_DebounceLowerBound ==
    [][ /\ HitsTimerFlush => hitsAge >= conf.GlobalSyncWait
        /\ UpdatesTimerFlush => updatesAge >= conf.GlobalSyncWait ]_vars

\* A pending batch has a fire of its interval ahead, due GlobalSyncWait after
\* its first item at the latest, or already there to read on C.
FireDue(pc, m, i, age) ==
    (pc = "select" /\ MapLen(m) # 0) =>
        \/ i.C
        \/ i.armed /\ i.remaining + age <= conf.GlobalSyncWait

C4_Deadline ==
    /\ FireDue(hitsPc, hits, hitsInterval, hitsAge)
    /\ FireDue(updatesPc, updates, updatesInterval, updatesAge)

\* Accepting an item leaves an armed interval as it is.
C4_Arrivals ==
    /\ (HitAccepted /\ hitsInterval.armed) => hitsInterval' = hitsInterval
    /\ (UpdateAccepted /\ updatesInterval.armed) => updatesInterval' = updatesInterval

\* C4: in both pipelines, with no shutdown and every call returning, a
\* non-empty batch is eventually flushed; while it waits at the select a fire
\* of its interval is due GlobalSyncWait after its first item at the latest,
\* and the items accepted later never move a scheduled fire.
C4_BoundedStaleness ==
    /\ []C4_Deadline
    /\ [][C4_Arrivals]_vars
    /\ (MapLen(hits) # 0) ~> (MapLen(hits) = 0)
    /\ (MapLen(updates) # 0) ~> (MapLen(updates) = 0)

\* A batch of one key that took a second hit while its interval was armed and
\* part of the wait had passed.
C4_Witness ==
    /\ hitsPc = "select"
    /\ \E k \in DOMAIN hits : hits[k].Hits > MaxHits
    /\ hitsInterval.armed /\ hitsInterval.remaining < conf.GlobalSyncWait
    /\ hitsAge > 0

\* The getRateLimit calls, and the entries of req.Globals, made for key k.
EvalsOf(k) == {i \in 1..Len(evals) : evals[i].rl.HashKey = k}
GlobalsOf(k) == {j \in 1..Len(req) : req[j].Key = k}

\* C5: a broadcast flush evaluates each key of its batch once, on the latest
\* request queued for the key, and its message holds one entry at most for
\* the key, built from that request: one if the evaluation succeeded.
C5_LastWriteWins ==
    updatesPc = "broadcast" =>
        \A k \in Keys :
            IF lastUpdate[k] = NoReq
            THEN EvalsOf(k) = {} /\ GlobalsOf(k) = {}
            ELSE /\ Cardinality(EvalsOf(k)) = 1
                 /\ \A i \in EvalsOf(k) :
                      /\ evals[i].rl.Limit = lastUpdate[k].Limit
                      /\ Cardinality(GlobalsOf(k)) = (IF evals[i].err THEN 0 ELSE 1)
                 /\ \A j \in GlobalsOf(k) : req[j].Status.Limit = lastUpdate[k].Limit

\* A finished broadcast of an entry for a key that was queued twice with
\* different requests.
C5_Witness ==
    /\ updatesPc = "broadcast" /\ peerList = <<>>
    /\ updateCalls # <<>>
    /\ \E k \in replaced : GlobalsOf(k) # {}

\* C6: every request a broadcast flush passes to getRateLimit has Hits = 0
\* and Behavior = 0, every entry of the message is the status of such a
\* request, and every call carries that message.
C6_AntiFeedback ==
    /\ \A i \in 1..Len(evals) : evals[i].rl.Hits = 0 /\ evals[i].rl.Behavior = 0
    /\ \A j \in 1..Len(req) :
         \E i \in EvalsOf(req[j].Key) :
            /\ ~evals[i].err
            /\ req[j].Status = [Limit |-> evals[i].rl.Limit, Remaining |-> evals[i].rl.Limit]
    /\ \A c \in 1..Len(updateCalls) : updateCalls[c].Globals = req

\* A broadcast call whose message has an entry for a request that was queued
\* with hits and with the GLOBAL behavior.
C6_Witness ==
    /\ updatesPc = "broadcast"
    /\ updateCalls # <<>>
    /\ \E j \in 1..Len(req) :
         lastUpdate[req[j].Key].Hits > 0 /\ lastUpdate[req[j].Key].Behavior # 0

\* The peers of the list the send loop of updatePeers has visited, and those
\* of them it has to call.
VisitedPeers == SubSeq(updatePeerList, 1, Len(updatePeerList) - Len(peerList))
IsRemote(peer) == ~peer.isOwner
RemotePeers(list) == SelectSeq(list, IsRemote)

\* The peers visited so far were called once each, in the order of the list,
\* but for those flagged isOwner, which were not called.
CalledRemotePeers ==
    /\ Len(updateCalls) = Len(RemotePeers(VisitedPeers))
    /\ \A i \in 1..Len(updateCalls) :
         updateCalls[i].host = RemotePeers(VisitedPeers)[i].host

\* C7: a broadcast flush calls UpdatePeerGlobals once on every peer of the
\* peer list that is not flagged isOwner and on no other; every call carries
\* the same message, with one entry for each key of the batch whose
\* evaluation succeeded and no other entry.
C7_BroadcastFanOut ==
    updatesPc = "broadcast" =>
        /\ CalledRemotePeers
        /\ \A i \in 1..Len(updateCalls) : updateCalls[i].Globals = req
        /\ \A j \in 1..Len(req) : req[j].Key \in DOMAIN updates
        /\ \A k \in DOMAIN updates :
             Cardinality(GlobalsOf(k)) =
                 (IF \E i \in EvalsOf(k) : ~evals[i].err THEN 1 ELSE 0)

\* Two keys, three peers of which one is the owner: two calls, both entries.
C7_Witness ==
    /\ updatesPc = "broadcast" /\ peerList = <<>>
    /\ Len(updatePeerList) = 3
    /\ Len(updateCalls) = 2
    /\ Len(req) = 2 /\ req[1].Key # req[2].Key

\* The hosts a hit flush has called, and the keys of the requests sent to host.
CalledHosts == {hitCalls[i].host : i \in 1..Len(hitCalls)}
KeysSentTo(host) == {r.HashKey : r \in {x \in DispatchedHits :
                        \E i \in 1..Len(hitCalls) :
                           /\ hitCalls[i].host = host
                           /\ \E j \in 1..Len(hitCalls[i].Requests) :
                                 hitCalls[i].Requests[j] = x}}
KeysPendingFor(host) ==
    IF host \in DOMAIN peerRequests
    THEN {peerRequests[host][j].HashKey : j \in 1..Len(peerRequests[host])}
    ELSE {}

C8_Dispatch ==
    hitsPc = "send" =>
        /\ \A k \in DOMAIN hits : \A host \in Hosts :
             (k \in KeysSentTo(host) \cup KeysPendingFor(host)) <=> hitPeers[k] = host
        /\ \A r \in DispatchedHits : r.Hits = queuedHits[r.HashKey]

C8_Discard ==
    (hitsPc = "send" /\ hitsPc' = "select") =>
        /\ DOMAIN peerRequests = {}
        /\ MapLen(hits') = 0
        /\ \A k \in Keys : queuedHits'[k] = 0

\* C8: in a hit flush a key whose GetPeer failed is in no message, sent or to
\* send, while every other key of the batch is in the message for its peer
\* and for no other; the flush ends with every message sent and leaves an
\* empty batch, so that what a later flush sends for a key is the sum of the
\* hits queued after this flush.
C8_PeerResolutionFailure == []C8_Dispatch /\ [][C8_Discard]_vars

\* A finished flush of two keys: GetPeer failed for one, the other was sent.
C8_Witness ==
    /\ hitsPc = "send" /\ DOMAIN peerRequests = {}
    /\ \E k3, k4 \in DOMAIN hits :
         /\ hitPeers[k3] = ErrNoPeer
         /\ hitPeers[k4] \in Hosts
         /\ KeysSentTo(hitPeers[k4]) = {k4}
    /\ Len(hitCalls) = 1 /\ ~hitCalls[1].err

C9_OncePerPeer ==
    /\ hitsPc = "send" =>
        /\ \A i, j \in 1..Len(hitCalls) : hitCalls[i].host = hitCalls[j].host => i = j
        /\ CalledHosts \cap DOMAIN peerRequests = {}
        /\ CalledHosts \cup DOMAIN peerRequests
             = {hitPeers[k] : k \in DOMAIN hitPeers} \ {ErrNoPeer}
    /\ updatesPc = "broadcast" => CalledRemotePeers

C9_NoRequeue ==
    /\ hitsPc = "send" => hitsPc' \in {"send", "select"}
    /\ (hitsPc = "send" /\ hitsPc' = "select") =>
          DOMAIN peerRequests = {} /\ MapLen(hits') = 0
    /\ updatesPc = "broadcast" => updatesPc' \in {"broadcast", "store", "select"}
    /\ (updatesPc = "broadcast" /\ updatesPc' \in {"store", "select"}) => peerList = <<>>
    /\ updatesPc = "store" => updatesPc' \in {"store", "select"}
    /\ (updatesPc \in {"broadcast", "store"} /\ updatesPc' = "select") =>
          MapLen(updates') = 0

\* C9: in a hit flush every peer a key of the batch resolved to is called
\* once, in a broadcast flush every peer not flagged isOwner is called once,
\* whatever the calls made before returned; the flush ends when every peer was
\* called, with the loop at its select and an empty batch.
C9_FailureIsolation == []C9_OncePerPeer /\ [][C9_NoRequeue]_vars

\* A finished hit flush of two calls, the first of which failed.
C9_Witness ==
    /\ hitsPc = "send" /\ DOMAIN peerRequests = {}
    /\ Len(hitCalls) = 2
    /\ hitCalls[1].err

C10_Total == stats.AsyncGlobalsCount = flushedKeys

C10_Counted ==
    /\ stats'.AsyncGlobalsCount # stats.AsyncGlobalsCount =>
          hitsPc = "send" /\ hitsPc' = "select"
    /\ (hitsPc = "send" /\ hitsPc' = "select") =>
          /\ DOMAIN peerRequests = {}
          /\ stats'.AsyncGlobalsCount = stats.AsyncGlobalsCount + MapLen(hits)

\* C10: AsyncGlobalsCount changes only when a hit flush ends, after its last
\* call, and then by the number of keys of the flushed batch, whatever failed
\* in the flush; it is the sum of the batch sizes of the completed flushes.
C10_AttemptedHits == []C10_Total /\ [][C10_Counted]_vars

\* Keys were counted by a flush in which a GetPeer or a call failed.
C10_Witness ==
    /\ hitsPc = "select"
    /\ lastFailed
    /\ stats.AsyncGlobalsCount > 0

\* C11: a clearing Stats call loses no update of the loops: between calls, the
\* AsyncGlobalsCount values the clearing calls returned and the value of the
\* counter add up to what the completed hit flushes added.
C11_NoLostUpdate ==
    statsCall.pc = "idle" => returnedCount + stats.AsyncGlobalsCount = flushedKeys

\* A step in which a Stats call returns.
StatsReturns == statsCall.pc # "idle" /\ statsCall'.pc = "idle"

C12_Return ==
    /\ (statsCall' # statsCall /\ ~statsCall'.clear) => stats' = stats
    /\ (StatsReturns /\ statsCall.clear) => statsCall.pc = "storeBD"
    /\ (StatsReturns /\ ~statsDisturbed) =>
          /\ statsCall'.result = statsBefore
          /\ stats' = IF statsCall.clear THEN ZeroStats ELSE statsBefore
          /\ (~statsCall.clear /\ prevCall = "clear") => statsCall'.result = ZeroStats

\* C12: a Stats call during which no flush writes gm.stats returns the values
\* both counters had when it was called; Stats(false) never changes a
\* counter, Stats(true) returns once both counters are zero, and a
\* Stats(false) that follows it with no write in between returns zeros.
C12_StatsContract == [][C12_Return]_vars

\* Stats(true) returned a count that was not zero, and left both counters zero.
C12_Witness ==
    /\ statsCall.pc = "idle" /\ statsCall.clear
    /\ prevCall = "clear"
    /\ statsCall.result.AsyncGlobalsCount > 0
    /\ stats = ZeroStats

C13_IsMax == stats.BroadcastDuration = maxSince

C13_Step ==
    /\ stats'.BroadcastDuration < stats.BroadcastDuration =>
          statsCall.pc = "storeBD" /\ statsCall.clear
    /\ (updatesPc = "broadcast" /\ peerList = <<>> /\ updatesPc' # "broadcast"
          /\ elapsed <= stats.BroadcastDuration) =>
          stats' = stats /\ updatesPc' = "select"

\* C13: BroadcastDuration is the duration of the longest broadcast flush
\* completed since Stats(true) last cleared it, 0 if there is none; a flush
\* that took no longer than the value recorded leaves it as it is, and only
\* the clearing store of Stats(true) lowers it.
C13_HighWaterMark == []C13_IsMax /\ [][C13_Step]_vars

\* A second flush that took time ends with a duration up to the one recorded.
C13_Witness ==
    /\ updatesPc = "broadcast" /\ peerList = <<>>
    /\ stats.BroadcastDuration > 0 /\ stats.BroadcastDuration = maxSince
    /\ elapsed > 0 /\ elapsed <= stats.BroadcastDuration

\* C14: with no shutdown and every call of a flush returning, every QueueHit
\* call and every QueueUpdate call returns, whatever the other producers do.
C14_EnqueueLiveness ==
    \A p \in Producers :
        /\ (producers[p] = "QueueHit") ~> (producers[p] = "idle")
        /\ (producers[p] = "QueueUpdate") ~> (producers[p] = "idle")

\* A producer blocked in QueueHit while a flush is in progress.
C14_Witness ==
    /\ hitsPc = "send" /\ hitCalls # <<>>
    /\ \E p \in Producers : producers[p] = "QueueHit"

\* A loop that has stopped stopped at its select, after done was closed, and
\* with no flush under way.
C15_AtStop ==
    /\ hitsPc = "stopped" =>
          done /\ hitCalls = <<>> /\ hitPeers = EmptyMap /\ DOMAIN peerRequests = {}
    /\ updatesPc = "stopped" =>
          done /\ evals = <<>> /\ updateCalls = <<>> /\ peerList = <<>>

C15_Step ==
    /\ hitsPc' = "stopped" =>
          /\ hitsPc \in {"select", "stopped"}
          /\ UNCHANGED <<hits, hitCalls, hitPeers, peerRequests, stats.AsyncGlobalsCount>>
    /\ (hitsPc = "select" /\ hitsPc' = "sendHits") => HitAccepted \/ HitsTimerFlush
    /\ hitsPc = "stopped" => hitsPc' = "stopped"
    /\ updatesPc' = "stopped" =>
          /\ updatesPc \in {"select", "stopped"}
          /\ UNCHANGED <<updates, evals, updateCalls, req, peerList,
                         stats.BroadcastDuration>>
    /\ (updatesPc = "select" /\ updatesPc' = "updatePeers") =>
          UpdateAccepted \/ UpdatesTimerFlush
    /\ updatesPc = "stopped" => updatesPc' = "stopped"

\* C15: a loop stops at its select only, once done is closed, and never from
\* within a flush; stopping starts no flush (a flush starts when a request is
\* accepted or interval.C is read, and in no other step); once the loop has
\* stopped its batch stays as it is and its pipeline makes no call, no
\* evaluation and no write to gm.stats.
C15_ShutdownNoFlush == []C15_AtStop /\ [][C15_Step]_vars

\* The hit loop has stopped with a pending batch and its interval armed.
C15_Witness ==
    /\ hitsPc = "stopped"
    /\ MapLen(hits) # 0
    /\ hitsInterval.armed

\* A flush starts from the select, with nothing of an earlier flush left.
C16_OneFlush ==
    /\ hitsPc = "sendHits" =>
          hitCalls = <<>> /\ hitPeers = EmptyMap /\ DOMAIN peerRequests = {}
    /\ updatesPc = "updatePeers" => evals = <<>> /\ updateCalls = <<>> /\ req = <<>>

\* A producer blocked on the queue of a loop that is at its select can be
\* received from, wherever the other loop is.
C16_NotGated ==
    \A p \in Producers :
        /\ (producers[p] = "QueueHit" /\ hitsPc = "select") =>
              ENABLED (\E r \in PairRequests : AsyncQueueCase(p, r))
        /\ (producers[p] = "QueueUpdate" /\ updatesPc = "select") =>
              ENABLED (\E r \in PairRequests : BroadcastQueueCase(p, r))

C16_Step ==
    /\ HitAccepted => hitsPc = "select"
    /\ (hitsPc # "sendHits" /\ hitsPc' = "sendHits") => hitsPc = "select"
    /\ hitsPc = "sendHits" => hitsPc' \in {"sendHits", "send"}
    /\ hitsPc = "send" => hitsPc' \in {"send", "select"}
    /\ UpdateAccepted => updatesPc = "select"
    /\ (updatesPc # "updatePeers" /\ updatesPc' = "updatePeers") => updatesPc = "select"
    /\ updatesPc = "updatePeers" => updatesPc' \in {"updatePeers", "broadcast"}
    /\ updatesPc = "broadcast" => updatesPc' \in {"broadcast", "store", "select"}
    /\ updatesPc = "store" => updatesPc' \in {"store", "select"}

\* C16: in each pipeline a call to QueueHit or QueueUpdate returns in a step
\* the loop takes from its select, and in no step of a flush; a flush starts
\* from the select and goes through its steps back to the select, so no
\* second flush starts within it; and a loop at its select can receive from
\* a blocked producer wherever the loop of the other pipeline is.
C16_SequentialFlushes == []C16_OneFlush /\ []C16_NotGated /\ [][C16_Step]_vars

\* A hit was accepted into an empty batch while a broadcast flush that has
\* lasted a unit of time is making its calls.
C16_Witness ==
    /\ updatesPc = "broadcast" /\ elapsed >= 1
    /\ hitsPc = "select" /\ MapLen(hits) = 1 /\ hitsAge = 0

\* The places (call, position) at which the request of key k was sent.
SentAt(k) ==
    {x \in (1..Len(hitCalls)) \X (1..MaxBatchLimit + 1) :
        /\ x[2] <= Len(hitCalls[x[1]].Requests)
        /\ hitCalls[x[1]].Requests[x[2]].HashKey = k}

\* C17: when a hit flush has made its calls, the request of every key whose
\* GetPeer succeeded was sent once, in the call to the host of its peer; the
\* calls went to different hosts, one to each host that owns a key of the
\* batch, and each carried a request at least.
C17_HitGrouping ==
    (hitsPc = "send" /\ DOMAIN peerRequests = {}) =>
        /\ \A k \in DOMAIN hits :
              IF hitPeers[k] = ErrNoPeer
              THEN SentAt(k) = {}
              ELSE /\ Cardinality(SentAt(k)) = 1
                   /\ \A x \in SentAt(k) :
                        /\ hitCalls[x[1]].host = hitPeers[k]
                        /\ hitCalls[x[1]].Requests[x[2]] = hits[k]
        /\ \A i, j \in 1..Len(hitCalls) :
              i # j => hitCalls[i].host # hitCalls[j].host
        /\ \A i \in 1..Len(hitCalls) : Len(hitCalls[i].Requests) >= 1
        /\ Len(hitCalls) = Cardinality({hitPeers[k] : k \in DOMAIN hits} \ {ErrNoPeer})

\* Batch limit 2, K1 owned by P1 and K2 by P2: two calls of one request.
C17_Witness ==
    /\ hitsPc = "send" /\ DOMAIN peerRequests = {}
    /\ conf.GlobalBatchLimit = 2
    /\ DOMAIN hits = {"K1", "K2"}
    /\ hitPeers["K1"] = "P1" /\ hitPeers["K2"] = "P2"
    /\ Len(hitCalls) = 2
    /\ \A i \in 1..Len(hitCalls) : Len(hitCalls[i].Requests) = 1

C18_PerKey ==
    /\ DOMAIN updates = {k \in Keys : lastUpdate[k] # NoReq}
    /\ updatesPc = "broadcast" =>
          \A k \in DOMAIN updates :
              /\ EvalsOf(k) # {}
              /\ IF \E i \in EvalsOf(k) : evals[i].err
                 THEN GlobalsOf(k) = {}
                 ELSE \E j \in GlobalsOf(k) :
                        req[j].Status = getRateLimit(ClearFlags(lastUpdate[k]))

C18_Dropped ==
    (updatesPc \in {"broadcast", "store"} /\ updatesPc' = "select") =>
        /\ MapLen(updates') = 0
        /\ \A k \in Keys : lastUpdate'[k] = NoReq

\* C18: in a broadcast flush every key of the batch is evaluated, whatever
\* the evaluations before it returned; a key whose evaluation failed has no
\* entry in the message, every other key has its status in it; the flush
\* leaves an empty batch, and a batch holds the keys queued since the last
\* flush only.
C18_EvaluationFailure == []C18_PerKey /\ [][C18_Dropped]_vars

\* The first evaluation of a flush failed, the second succeeded and its
\* entry was broadcast.
C18_Witness ==
    /\ updatesPc = "broadcast" /\ updateCalls # <<>>
    /\ Len(evals) = 2 /\ evals[1].err /\ ~evals[2].err
    /\ Len(req) = 1 /\ req[1].Key = evals[2].rl.HashKey

\* C19: in both pipelines a loop at its select with a batch that is not
\* empty has its interval armed or the fire of the interval to read on C.
C19_NoStrandedBatch ==
    /\ (hitsPc = "select" /\ MapLen(hits) # 0) => hitsInterval.armed \/ hitsInterval.C
    /\ (updatesPc = "select" /\ MapLen(updates) # 0) =>
          updatesInterval.armed \/ updatesInterval.C

\* After a flush by the batch limit, a batch waits with the interval dormant
\* and its fire not read yet.
C19_Witness ==
    /\ hitsPc = "select" /\ MapLen(hits) # 0
    /\ ~hitsInterval.armed /\ hitsInterval.C
    /\ conf.GlobalBatchLimit = 2 /\ flushedKeys = 2

\* A flush in progress is the flush of a batch that is not empty.
C20_FlushNonEmpty ==
    /\ hitsPc \in {"sendHits", "send"} => MapLen(hits) >= 1
    /\ updatesPc \in {"updatePeers", "broadcast", "store"} => MapLen(updates) >= 1

\* Reading interval.C with an empty batch changes nothing but C.
C20_EmptyFire ==
    /\ (hitsPc = "select" /\ hitsInterval.C /\ ~hitsInterval'.C /\ MapLen(hits) = 0) =>
          /\ hitsPc' = "select"
          /\ UNCHANGED <<hits, peerRequests, hitPeers, hitCalls, stats>>
    /\ (updatesPc = "select" /\ updatesInterval.C /\ ~updatesInterval'.C
          /\ MapLen(updates) = 0) =>
          /\ updatesPc' = "select"
          /\ UNCHANGED <<updates, req, evals, updateCalls, stats>>

\* C20: neither pipeline is ever in a flush of an empty batch, and a loop
\* that reads interval.C with an empty batch stays at its select: it makes no
\* call and no evaluation and leaves its batch and gm.stats as they are.
C20_NoEmptyFlush == []C20_FlushNonEmpty /\ [][C20_EmptyFire]_vars

\* The fire of the interval that the first key of a batch armed is there to
\* read after the batch limit flushed that batch: the batch is empty.
C20_Witness ==
    /\ hitsPc = "select" /\ MapLen(hits) = 0
    /\ hitsInterval.C
    /\ conf.GlobalBatchLimit = 2 /\ flushedKeys = 2 /\ ~lastFailed

====
